---- MODULE Spec2Model ----
(***************************************************************************)
(* Model of dash3.py: the cached loader load_data (HTTP fetch, JSON shape  *)
(* detection, Km/Prix/Mc digit extraction, DateScraping parsing, error     *)
(* classification), the st.cache_data(ttl=300) slot in front of it, and    *)
(* the part of main that decides whether the refresh button is rendered.   *)
(*                                                                         *)
(* Text is a sequence of one-character strings, so that digit extraction   *)
(* and number formatting are computed character by character.              *)
(***************************************************************************)
EXTENDS Integers, Sequences, FiniteSets, TLC

VARIABLES
    json_error_is_request_exception, \* installed requests: is response.json()'s error a RequestException
    outcome,     \* SpecLoad: the network outcome handed to load_data
    stage,       \* SpecLoad: "input" | "loaded" | "renormalized"; Spec: "app"
    result,      \* the value of the last executed load_data body
    renormalized,\* SpecLoad: the coercion steps applied once more to result.table
    clock,       \* seconds since process start
    ticks,       \* number of time steps taken (bounded)
    cache,       \* st.cache_data slot of load_data: <<>> or <<[at, value]>>
    pc,          \* what the last run of main left on the page
    calls        \* the load_data calls made by the last script-run handler

vars == <<json_error_is_request_exception, outcome, stage, result, renormalized,
          clock, ticks, cache, pc, calls>>

(***************************************************************************)
(* Bounds                                                                  *)
(***************************************************************************)
MaxLen == 3      \* longest raw text enumerated exhaustively over Alphabet
MaxRows == 2     \* longest record sequence in a payload
MaxTicks == 3    \* time steps per behaviour

(***************************************************************************)
(* Values                                                                  *)
(***************************************************************************)
JStr(s) == [k |-> "str", s |-> s]
JInt(n) == [k |-> "int", n |-> n]
JNull == [k |-> "null"]
JList(items) == [k |-> "list", items |-> items]
JDict(m) == [k |-> "dict", map |-> m]
InvalidJson == [k |-> "invalid_json"]

Absent == [k |-> "absent"]
Float(n) == [k |-> "float", n |-> n]
NaN == [k |-> "nan"]
NA == [k |-> "na"]
Ts(y, m, d) == [k |-> "ts", y |-> y, m |-> m, d |-> d]
NaT == [k |-> "nat"]

EmptyRecord == [c \in {} |-> JNull]

Digits == {"0", "1", "2", "3", "4", "5", "6", "7", "8", "9"}

DigitVal(c) ==
    CASE c = "0" -> 0 [] c = "1" -> 1 [] c = "2" -> 2 [] c = "3" -> 3
      [] c = "4" -> 4 [] c = "5" -> 5 [] c = "6" -> 6 [] c = "7" -> 7
      [] c = "8" -> 8 [] c = "9" -> 9

DigitChar(d) ==
    CASE d = 0 -> "0" [] d = 1 -> "1" [] d = 2 -> "2" [] d = 3 -> "3"
      [] d = 4 -> "4" [] d = 5 -> "5" [] d = 6 -> "6" [] d = 7 -> "7"
      [] d = 8 -> "8" [] d = 9 -> "9"

\* int(text) for a text made of decimal digits only
RECURSIVE ParseInt(_)
ParseInt(ds) ==
    IF ds = <<>> THEN 0
    ELSE ParseInt(SubSeq(ds, 1, Len(ds) - 1)) * 10 + DigitVal(ds[Len(ds)])

\* str(n) for a Python int
RECURSIVE NatText(_)
NatText(n) ==
    IF n < 10 THEN <<DigitChar(n)>>
    ELSE NatText(n \div 10) \o <<DigitChar(n % 10)>>

IntText(n) == IF n < 0 THEN <<"-">> \o NatText(0 - n) ELSE NatText(n)

\* str(x) for a float64 holding an integral value (repr below 1e16)
FloatText(n) == IntText(n) \o <<".", "0">>

(***************************************************************************)
(* pandas: DataFrame construction                                          *)
(***************************************************************************)
EmptyDF == [cols |-> {}, rows |-> <<>>]

\* DataFrame.empty: any axis of length 0
IsEmpty(df) == df.cols = {} \/ Len(df.rows) = 0

RowCount(df) == Len(df.rows)

Column(df, c) == [i \in 1..Len(df.rows) |-> df.rows[i][c]]

SetColumn(df, c, col) ==
    [df EXCEPT !.rows = [i \in 1..Len(df.rows) |-> [df.rows[i] EXCEPT ![c] = col[i]]]]

\* dtype inference of one column built from a list of dicts
InferColumn(col) ==
    LET kinds == {col[i].k : i \in DOMAIN col} IN
    IF kinds = {"int"} THEN col
    ELSE IF "int" \in kinds /\ kinds \subseteq {"int", "null", "absent"}
    THEN [i \in DOMAIN col |-> IF col[i].k = "int" THEN Float(col[i].n) ELSE NaN]
    ELSE IF "absent" \in kinds /\ kinds \subseteq {"null", "absent"}
    THEN [i \in DOMAIN col |-> NaN]
    ELSE [i \in DOMAIN col |-> IF col[i].k = "absent" THEN NaN ELSE col[i]]

\* pd.DataFrame(list of dicts): one row per element, columns = union of keys
FromRecords(items) ==
    LET cs == UNION {DOMAIN items[i] : i \in 1..Len(items)}
        raw(c) == [i \in 1..Len(items) |->
                      IF c \in DOMAIN items[i] THEN items[i][c] ELSE Absent]
        inferred == [c \in cs |-> InferColumn(raw(c))]
    IN [cols |-> cs,
        rows |-> [i \in 1..Len(items) |-> [c \in cs |-> inferred[c][i]]]]

\* variant: a non-sequence mapping is wrapped as a single row
DataFrame_Wrap(x) ==
    CASE x.k = "list" -> [raised |-> FALSE, df |-> FromRecords(x.items)]
      [] x.k = "dict" -> [raised |-> FALSE, df |-> FromRecords(<<x.map>>)]
      [] x.k = "null" -> [raised |-> FALSE, df |-> EmptyDF]
      [] x.k \in {"str", "int"} -> [raised |-> TRUE, df |-> EmptyDF]

\* pd.DataFrame(x) for a decoded JSON value x; raised = TRUE is a ValueError
DataFrame(x) ==
    CASE x.k = "list" -> [raised |-> FALSE, df |-> FromRecords(x.items)]
      [] x.k = "dict" ->
            IF DOMAIN x.map = {}
            THEN [raised |-> FALSE, df |-> EmptyDF]
            ELSE [raised |-> TRUE, df |-> EmptyDF]   \* all scalar values, no index
      [] x.k = "null" -> [raised |-> FALSE, df |-> EmptyDF]
      [] x.k \in {"str", "int"} -> [raised |-> TRUE, df |-> EmptyDF]

(***************************************************************************)
(* load_data: numeric and date coercion                                    *)
(***************************************************************************)
NumericCols == <<"Km", "Prix", "Mc">>

\* Series.astype(str), element-wise
astype_str(v) ==
    CASE v.k = "str" -> v.s
      [] v.k = "int" -> IntText(v.n)
      [] v.k = "float" -> FloatText(v.n)
      [] v.k = "nan" -> <<"n", "a", "n">>
      [] v.k = "null" -> <<"N", "o", "n", "e">>

\* .str.replace(r'[^0-9]', '', regex=True)
StripNonDigits(s) == SelectSeq(s, LAMBDA ch : ch \in Digits)

\* cleaned.replace('', pd.NA)
EmptyToNA(s) == IF s = <<>> THEN NA ELSE JStr(s)

\* pd.to_numeric(cleaned, errors='coerce'): int64 without NA, float64 with NA
to_numeric(cleaned) ==
    IF \A i \in DOMAIN cleaned : cleaned[i].k = "str"
    THEN [i \in DOMAIN cleaned |-> JInt(ParseInt(cleaned[i].s))]
    ELSE [i \in DOMAIN cleaned |->
             IF cleaned[i].k = "str" THEN Float(ParseInt(cleaned[i].s)) ELSE NaN]

CleanColumn(col) ==
    to_numeric([i \in DOMAIN col |-> EmptyToNA(StripNonDigits(astype_str(col[i])))])

CleanNumericCol(df, c) ==
    IF c \in df.cols THEN SetColumn(df, c, CleanColumn(Column(df, c))) ELSE df

CleanNumeric(df) ==
    CleanNumericCol(CleanNumericCol(CleanNumericCol(df,
        NumericCols[1]), NumericCols[2]), NumericCols[3])

IsDateText(s) ==
    /\ Len(s) = 10
    /\ s[5] = "-" /\ s[8] = "-"
    /\ \A i \in {1, 2, 3, 4, 6, 7, 9, 10} : s[i] \in Digits
    /\ ParseInt(SubSeq(s, 6, 7)) \in 1..12
    /\ ParseInt(SubSeq(s, 9, 10)) \in 1..31

\* pd.to_datetime(x, errors='coerce'), element-wise, on the cell kinds that occur
to_datetime(v) ==
    CASE v.k = "str" ->
            IF IsDateText(v.s)
            THEN Ts(ParseInt(SubSeq(v.s, 1, 4)), ParseInt(SubSeq(v.s, 6, 7)),
                    ParseInt(SubSeq(v.s, 9, 10)))
            ELSE NaT
      [] v.k \in {"null", "nan", "nat"} -> NaT
      [] v.k = "ts" -> v

ConvertDate(df) ==
    IF "DateScraping" \in df.cols
    THEN SetColumn(df, "DateScraping",
            [i \in 1..Len(df.rows) |-> to_datetime(df.rows[i]["DateScraping"])])
    ELSE df

\* variant: rows with a missing numeric cell are dropped after coercion
Coerce_DropMissing(df) ==
    LET out == ConvertDate(CleanNumeric(df)) IN
    [out EXCEPT !.rows =
        SelectSeq(out.rows,
                  LAMBDA r : \A j \in 1..3 :
                      NumericCols[j] \in out.cols => r[NumericCols[j]].k # "nan")]

\* lines 46-54 of load_data
Coerce(df) == ConvertDate(CleanNumeric(df))

(***************************************************************************)
(* load_data                                                               *)
(***************************************************************************)
\* a return of load_data after its single requests.get; raises = TRUE would be an
\* exception leaving load_data
Returned(df, msgs) == [table |-> df, reported |-> msgs, requests |-> 1, raises |-> FALSE]

\* variant: the generic handler comes first, so transport failures land in it
FetchFailure_AsProcessing == Returned(EmptyDF, <<"ProcessingError">>)

FetchFailure == Returned(EmptyDF, <<"FetchError">>)
\* variant: no generic handler, the exception leaves load_data
ProcessingFailure_Uncaught ==
    [table |-> EmptyDF, reported |-> <<>>, requests |-> 1, raises |-> TRUE]

ProcessingFailure == Returned(EmptyDF, <<"ProcessingError">>)

\* variant: no else branch, every other value goes to the table constructor
Tabularize_NoElse(data) ==
    IF data.k = "list" THEN DataFrame(data) @@ [silent |-> FALSE]
    ELSE IF data.k = "dict"
    THEN IF "data" \in DOMAIN data.map
         THEN DataFrame(data.map["data"]) @@ [silent |-> FALSE]
         ELSE DataFrame(JList(<<data.map>>)) @@ [silent |-> FALSE]
    ELSE DataFrame(data) @@ [silent |-> FALSE]

\* the DataFrame built by lines 35-43; silent = TRUE is the early return of line 43
Tabularize(data) ==
    IF data.k = "list" THEN DataFrame(data) @@ [silent |-> FALSE]
    ELSE IF data.k = "dict"
    THEN IF "data" \in DOMAIN data.map
         THEN DataFrame(data.map["data"]) @@ [silent |-> FALSE]
         ELSE DataFrame(JList(<<data.map>>)) @@ [silent |-> FALSE]
    ELSE [raised |-> FALSE, df |-> EmptyDF, silent |-> TRUE]

load_data(net, jsonErrIsRequestException) ==
    IF net.status \in {"connection_error", "timeout"} THEN FetchFailure
    ELSE IF net.status = "http_error" THEN FetchFailure
    ELSE IF net.body.k = "invalid_json"
    THEN IF jsonErrIsRequestException THEN FetchFailure ELSE ProcessingFailure
    ELSE LET t == Tabularize(net.body) IN
         IF t.silent THEN Returned(EmptyDF, <<>>)
         ELSE IF t.raised THEN ProcessingFailure
         ELSE Returned(Coerce(t.df), <<>>)

(***************************************************************************)
(* Inputs: network outcomes and decoded payloads                           *)
(***************************************************************************)
Alphabet == {"0", "1", "7", " ", "M"}

Texts == UNION {[1..n -> Alphabet] : n \in 0..MaxLen}

SampleTexts ==
    { <<"1", "2", " ", "3", "4", "5", " ", "M", "A", "D">>,
      <<"M", "A", "D">>,
      <<"1", "2", "0", " ", "0", "0", "0", " ", "k", "m">>,
      <<"8", "5", ".", "0", "0", "0", " ", "M", "A", "D">>,
      <<"-", "4", "2", ",", "5">> }

SampleInts == {0, 7, 120000, 0 - 5}

\* sampled raw values of a Km / Prix / Mc field
SampleRaw ==
    {JStr(s) : s \in SampleTexts} \cup {JInt(n) : n \in SampleInts} \cup {JNull}

\* raw values of a Km / Prix / Mc field: every short text, and the samples
NumRaw == {JStr(s) : s \in Texts} \cup SampleRaw

DateOk == <<"2", "0", "2", "4", "-", "0", "1", "-", "1", "5">>
DateBad == <<"n", "/", "a">>
Dacia == <<"D", "a", "c", "i", "a">>

Scenario1 ==
    ("Km" :> JStr(<<"1", "2", "0", " ", "0", "0", "0", " ", "k", "m">>))
    @@ ("Prix" :> JStr(<<"8", "5", ".", "0", "0", "0", " ", "M", "A", "D">>))
    @@ ("Marque" :> JStr(Dacia))

SampleRecords ==
    { EmptyRecord,
      Scenario1,
      ("Marque" :> JStr(Dacia)),
      ("DateScraping" :> JStr(DateOk)),
      ("DateScraping" :> JStr(DateBad)),
      ("DateScraping" :> JNull) @@ ("Mc" :> JInt(7)) }

Records ==
    {("Km" :> v) : v \in NumRaw}
    \cup {(c :> v) : c \in {"Prix", "Mc"}, v \in SampleRaw \cup {JStr(<<>>)}}
    \cup SampleRecords

\* records used for the rows after the first one
FillRecords ==
    { EmptyRecord,
      ("Km" :> JInt(7)),
      ("Km" :> JStr(<<"M", "A", "D">>)),
      ("Prix" :> JStr(<<"1", " ", "0">>)) @@ ("DateScraping" :> JStr(DateOk)),
      ("Mc" :> JNull) @@ ("DateScraping" :> JStr(DateBad)) }

FillSeqs(n) == UNION {[1..m -> FillRecords] : m \in 0..n}

RecordSeqs ==
    {<<>>} \cup {<<r>> \o rest : r \in Records, rest \in FillSeqs(MaxRows - 1)}

UnexpectedScalar ==
    <<"u", "n", "e", "x", "p", "e", "c", "t", "e", "d", "-",
      "s", "c", "a", "l", "a", "r">>

Scalars == {JStr(UnexpectedScalar), JStr(<<>>), JInt(42), JNull}

Bodies ==
    {JList(rs) : rs \in RecordSeqs}
    \cup {JDict("data" :> JList(rs)) : rs \in RecordSeqs}
    \cup {JDict(r) : r \in Records}
    \cup {JDict("data" :> JDict(r)) : r \in Records}
    \cup {JDict(("data" :> s) @@ ("count" :> JInt(1))) : s \in Scalars}
    \cup Scalars
    \cup {InvalidJson}

Ok(body) == [status |-> "ok", body |-> body]
Failed(kind) == [status |-> kind]

TransportFailures == {Failed("connection_error"), Failed("timeout"), Failed("http_error")}

Outcomes == TransportFailures \cup {Ok(b) : b \in Bodies}

NoResult == [table |-> EmptyDF, reported |-> <<>>, requests |-> 0, raises |-> FALSE]

(***************************************************************************)
(* SpecLoad: load_data as a function of the network outcome                *)
(***************************************************************************)
InitLoad ==
    /\ json_error_is_request_exception \in BOOLEAN
    /\ outcome \in Outcomes
    /\ stage = "input"
    /\ result = NoResult
    /\ renormalized = EmptyDF
    /\ clock = 0
    /\ ticks = 0
    /\ cache = <<>>
    /\ pc = "init"
    /\ calls = <<>>

appVars == <<clock, ticks, cache, pc, calls>>

\* one execution of the body of load_data
Load ==
    /\ stage = "input"
    /\ result' = load_data(outcome, json_error_is_request_exception)
    /\ stage' = "loaded"
    /\ UNCHANGED <<json_error_is_request_exception, outcome, renormalized, appVars>>

\* lines 46-54 applied to the table load_data returned
Renormalize ==
    /\ stage = "loaded"
    /\ result.reported = <<>>
    /\ renormalized' = Coerce(result.table)
    /\ stage' = "renormalized"
    /\ UNCHANGED <<json_error_is_request_exception, outcome, result, appVars>>

NextLoad == Load \/ Renormalize

SpecLoad == InitLoad /\ [][NextLoad]_vars

(***************************************************************************)
(* Spec: the cache slot of st.cache_data(ttl=300) and the runs of main     *)
(***************************************************************************)
ttl == 300

\* seconds by which one time step advances the clock
Steps == {1, 299}

\* variant: an entry is still served at the instant it expires
CacheHit_Inclusive(slot, now) == slot # <<>> /\ now <= slot[1].at + ttl

\* a stored entry is served while the clock is before its expiry
CacheHit(slot, now) == slot # <<>> /\ now < slot[1].at + ttl

\* st.cache_data.clear()
CacheClear == <<>>

CacheStore(now, r) == <<[at |-> now, value |-> r]>>

\* one call of the decorated load_data at time now; net is what the endpoint
\* would answer if it were asked
CachedCall(slot, now, net, jsonErrIsRequestException) ==
    IF CacheHit(slot, now)
    THEN [cache |-> slot,
          call |-> [at |-> now, slot |-> slot, net |-> net, requests |-> 0,
                    table |-> slot[1].value.table,
                    reported |-> slot[1].value.reported]]
    ELSE LET r == load_data(net, jsonErrIsRequestException) IN
         [cache |-> IF r.raises THEN slot ELSE CacheStore(now, r),
          call |-> [at |-> now, slot |-> slot, net |-> net, requests |-> r.requests,
                    table |-> r.table, reported |-> r.reported]]

\* variant: main does not stop on an empty table
PageFor_NoStop(df) == "rendered"

\* the page main leaves for a table: st.stop() on an empty one, otherwise the
\* whole page including the sidebar refresh button
PageFor(df) == IF IsEmpty(df) THEN "stopped" ELSE "rendered"

\* one script run; button = TRUE when the run was triggered by the refresh
\* button, in which case reaching line 323 clears the cache and reruns main
main(slot, now, button, net1, net2, jsonErrIsRequestException) ==
    LET c1 == CachedCall(slot, now, net1, jsonErrIsRequestException) IN
    IF PageFor(c1.call.table) = "stopped" \/ ~button
    THEN [pc |-> PageFor(c1.call.table), cache |-> c1.cache, calls |-> <<c1.call>>]
    ELSE LET c2 == CachedCall(CacheClear, now, net2, jsonErrIsRequestException) IN
         [pc |-> PageFor(c2.call.table), cache |-> c2.cache,
          calls |-> <<c1.call, c2.call>>]

AppOutcomes ==
    { Failed("connection_error"),
      Failed("http_error"),
      Ok(InvalidJson),
      Ok(JStr(UnexpectedScalar)),
      Ok(JList(<<>>)),
      Ok(JList(<<EmptyRecord>>)),
      Ok(JList(<<Scenario1>>)),
      Ok(JDict("data" :> JList(<<("Km" :> JInt(7)), ("Prix" :> JStr(<<"1", " ", "0">>))>>))),
      Ok(JDict("data" :> JDict(Scenario1))) }

Init ==
    /\ json_error_is_request_exception \in BOOLEAN
    /\ outcome = Failed("none")
    /\ stage = "app"
    /\ result = NoResult
    /\ renormalized = EmptyDF
    /\ clock = 0
    /\ ticks = 0
    /\ cache = <<>>
    /\ pc = "init"
    /\ calls = <<>>

loadVars == <<json_error_is_request_exception, outcome, stage, result, renormalized>>

\* time passes; no script runs
Tick ==
    /\ ticks < MaxTicks
    /\ \E d \in Steps : clock' = clock + d
    /\ ticks' = ticks + 1
    /\ calls' = <<>>
    /\ UNCHANGED <<cache, pc, loadVars>>

\* a script run not caused by the refresh button: session start, page reload,
\* or a filter widget change
Run ==
    /\ \E net \in AppOutcomes :
          LET m == main(cache, clock, FALSE, net, net, json_error_is_request_exception) IN
          /\ cache' = m.cache
          /\ pc' = m.pc
          /\ calls' = m.calls
    /\ UNCHANGED <<clock, ticks, loadVars>>

\* the user presses the refresh button, which exists only on a rendered page
ClickRefresh ==
    /\ pc = "rendered"
    /\ \E net1, net2 \in AppOutcomes :
          LET m == main(cache, clock, TRUE, net1, net2, json_error_is_request_exception) IN
          /\ cache' = m.cache
          /\ pc' = m.pc
          /\ calls' = m.calls
    /\ UNCHANGED <<clock, ticks, loadVars>>

Next == Tick \/ Run \/ ClickRefresh

Spec == Init /\ [][Next]_vars

(***************************************************************************)
(* Properties of load_data (checked under SpecLoad)                        *)
(***************************************************************************)
Loaded == stage # "input"

Classified == {<<"FetchError">>, <<"ProcessingError">>}

NoRows(df) == df.cols = {} /\ df.rows = <<>>

\* C1: load_data always returns (no exception leaves it), and what it returns
\* is either a table with no error reported, or an empty table together with
\* exactly one reported error that is FetchError or ProcessingError.
C1_ReturnsTableOrClassifiedError ==
    Loaded =>
        /\ ~result.raises
        /\ \/ result.reported = <<>>
           \/ /\ NoRows(result.table)
              /\ result.reported \in Classified

C1_Witness ==
    /\ Loaded
    /\ outcome.status = "ok"
    /\ outcome.body.k = "dict"
    /\ result.reported = <<"ProcessingError">>
    /\ NoRows(result.table)

\* C2: a transport-level failure of the request (connection error, timeout,
\* non-success status) gives an empty table with FetchError reported, after
\* exactly one network request.
C2_TransportFailureIsFetchError ==
    (Loaded /\ outcome \in TransportFailures) =>
        /\ NoRows(result.table)
        /\ result.reported = <<"FetchError">>
        /\ result.requests = 1

C2_Witness ==
    /\ Loaded
    /\ outcome.status = "timeout"
    /\ result.reported = <<"FetchError">>
    /\ result.requests = 1

IsScalarBody == outcome.status = "ok" /\ outcome.body.k \in {"str", "int", "null"}

\* C3 as stated: a JSON body that decodes to a scalar gives an empty table
\* with ProcessingError reported.
C3_ScalarReportsProcessingError ==
    (Loaded /\ IsScalarBody) =>
        /\ NoRows(result.table)
        /\ result.reported = <<"ProcessingError">>

\* C3 amended: a JSON body that decodes to a scalar gives an empty table and
\* load_data reports no error at all.
C3_ScalarIsSilentlyEmpty ==
    (Loaded /\ IsScalarBody) =>
        /\ NoRows(result.table)
        /\ result.reported = <<>>
        /\ ~result.raises

C3_Witness ==
    /\ Loaded
    /\ outcome.status = "ok"
    /\ outcome.body = JStr(UnexpectedScalar)
    /\ result.reported = <<>>
    /\ NoRows(result.table)

\* C4: a success response whose body is not valid JSON is classified as
\* ProcessingError, not FetchError, and gives an empty table.
C4_InvalidJsonIsProcessingError ==
    (Loaded /\ outcome.status = "ok" /\ outcome.body.k = "invalid_json") =>
        /\ NoRows(result.table)
        /\ result.reported = <<"ProcessingError">>

\* C6: a payload that is a sequence of records gives a table with one row per
\* record and no error; the empty sequence gives an empty table and no error.
C6_RowCountEqualsSequenceLength ==
    (Loaded /\ outcome.status = "ok" /\ outcome.body.k = "list") =>
        /\ RowCount(result.table) = Len(outcome.body.items)
        /\ result.reported = <<>>
        /\ (outcome.body.items = <<>> => NoRows(result.table))

C6_Witness ==
    /\ Loaded
    /\ outcome.status = "ok"
    /\ outcome.body.k = "list"
    /\ Len(outcome.body.items) = MaxRows
    /\ RowCount(result.table) = MaxRows
    /\ "Km" \in result.table.cols
    /\ result.table.rows[1]["Km"].k = "nan"

\* the records a body is tabularized from, when it is tabularized
HasRecords(body) ==
    \/ body.k = "list"
    \/ body.k = "dict" /\ "data" \notin DOMAIN body.map
    \/ body.k = "dict" /\ "data" \in DOMAIN body.map /\ body.map["data"].k = "list"

SourceRecords(body) ==
    IF body.k = "list" THEN body.items
    ELSE IF "data" \in DOMAIN body.map THEN body.map["data"].items
    ELSE <<body.map>>

\* the text form of a raw JSON scalar
RawText(v) ==
    CASE v.k = "str" -> v.s
      [] v.k = "int" -> IntText(v.n)
      [] v.k = "null" -> <<"n", "u", "l", "l">>

\* the cell is the integer spelled by the digits of the raw value's text, or
\* missing when there is no digit (or no raw value)
CellIsDigitsOf(cell, rec, c) ==
    LET ds == IF c \in DOMAIN rec THEN StripNonDigits(RawText(rec[c])) ELSE <<>> IN
    IF ds = <<>> THEN cell.k = "nan"
    ELSE cell.k \in {"int", "float"} /\ cell.n = ParseInt(ds)

\* C7: every Km / Prix / Mc cell of the returned table is the non-negative
\* integer formed by the decimal digits of the raw value's text, in order, or
\* the missing marker when the text has no digit.
C7_CellsAreDigitsOfRawText ==
    (Loaded /\ outcome.status = "ok" /\ HasRecords(outcome.body)
        /\ result.reported = <<>>) =>
        LET recs == SourceRecords(outcome.body) IN
        \A i \in 1..Len(result.table.rows) :
            \A j \in 1..3 :
                NumericCols[j] \in result.table.cols =>
                    CellIsDigitsOf(result.table.rows[i][NumericCols[j]], recs[i],
                                   NumericCols[j])

\* C8: applying the Km/Prix/Mc and DateScraping coercion to a table that
\* load_data already returned leaves every cell unchanged.
C8_CoercionIsIdempotent ==
    stage = "renormalized" => renormalized = result.table

DataIsNotSequence ==
    /\ outcome.status = "ok"
    /\ outcome.body.k = "dict"
    /\ "data" \in DOMAIN outcome.body.map
    /\ outcome.body.map["data"].k # "list"

\* C9 as stated: a mapping whose `data` value is not a sequence is wrapped as
\* a single row: one-row table, no error.
C9_NonSequenceDataIsOneRow ==
    (Loaded /\ DataIsNotSequence) =>
        /\ RowCount(result.table) = 1
        /\ result.reported = <<>>

DataIsRecordOrValue ==
    /\ DataIsNotSequence
    /\ \/ outcome.body.map["data"].k \in {"str", "int"}
       \/ /\ outcome.body.map["data"].k = "dict"
          /\ DOMAIN outcome.body.map["data"].map # {}

\* C9 amended: a mapping whose `data` value is a non-empty record mapping of
\* scalars, a string or a number is not wrapped: the table constructor
\* rejects it, and load_data returns an empty table with ProcessingError.
C9_NonSequenceDataIsProcessingError ==
    (Loaded /\ DataIsRecordOrValue) =>
        /\ NoRows(result.table)
        /\ result.reported = <<"ProcessingError">>

C9_Witness ==
    /\ Loaded
    /\ DataIsRecordOrValue
    /\ outcome.body.map["data"] = JDict(Scenario1)
    /\ result.reported = <<"ProcessingError">>

(***************************************************************************)
(* Properties of the cache and of main (checked under Spec)                *)
(***************************************************************************)
\* the slot held a result computed less than 5 minutes before the call
ComputedWithinWindow(c) == c.slot # <<>> /\ c.at - c.slot[1].at < 300

\* C5: a call of load_data issues a network request exactly when the cache
\* slot holds no result computed less than 300 s ago; otherwise it returns
\* the stored table with no request, whatever the endpoint would answer; the
\* call that follows a cache clear always fetches.
C5_FetchIffNoFreshEntry ==
    /\ \A i \in DOMAIN calls :
          /\ (calls[i].requests = 1) <=> ~ComputedWithinWindow(calls[i])
          /\ calls[i].requests \in {0, 1}
          /\ ComputedWithinWindow(calls[i]) =>
                /\ calls[i].table = calls[i].slot[1].value.table
                /\ calls[i].reported = calls[i].slot[1].value.reported
    /\ Len(calls) = 2 => calls[2].requests = 1

C5_Witness ==
    /\ Len(calls) = 1
    /\ calls[1].net \in TransportFailures
    /\ calls[1].requests = 0
    /\ calls[1].at = calls[1].slot[1].at + 299
    /\ RowCount(calls[1].table) = 2
    /\ cache = calls[1].slot

FailedEntry(slot) == slot # <<>> /\ slot[1].value.reported # <<>>

\* C10: a load that ends in FetchError or ProcessingError is stored in the
\* cache slot; main then stops before the refresh button, so while that
\* entry is less than 300 s old no step issues a request or changes the
\* slot, and the page stays stopped.
C10_FailedLoadHoldsForWindow ==
    [][ /\ \A i \in DOMAIN calls' :
              (calls'[i].requests = 1 /\ calls'[i].reported # <<>> /\ i = Len(calls')) =>
                  /\ FailedEntry(cache')
                  /\ cache'[1].at = calls'[i].at
                  /\ cache'[1].value.reported = calls'[i].reported
        /\ (FailedEntry(cache) /\ clock' - cache[1].at < 300) =>
              /\ cache' = cache
              /\ pc' = "stopped"
              /\ ~ENABLED ClickRefresh
              /\ \A i \in DOMAIN calls' : calls'[i].requests = 0
      ]_vars

C10_Witness ==
    /\ FailedEntry(cache)
    /\ clock = cache[1].at + 299
    /\ pc = "stopped"
    /\ Len(calls) = 1
    /\ calls[1].requests = 0
    /\ calls[1].net = Ok(JList(<<Scenario1>>))

====
